---- MODULE Spec2Model ----
(***************************************************************************)
(* Model of src/app.js: an interactive, file-backed key-value store that   *)
(* is loaded from a plaintext or RSA-OAEP encrypted file, mutated through  *)
(* a menu, and encrypted with a public key before it is written back.      *)
(*                                                                         *)
(* Strings are sequences of one-character strings, so that the code's      *)
(* character-level operations (startsWith, the key regular expression,     *)
(* JSON.stringify / JSON.parse) are computed and not assumed.              *)
(***************************************************************************)
EXTENDS Integers, Sequences, FiniteSets, TLC

(***************************************************************************)
(* Characters                                                              *)
(***************************************************************************)
Lower ==
    {"a","b","c","d","e","f","g","h","i","j","k","l","m",
     "n","o","p","q","r","s","t","u","v","w","x","y","z"}

Upper ==
    {"A","B","C","D","E","F","G","H","I","J","K","L","M",
     "N","O","P","Q","R","S","T","U","V","W","X","Y","Z"}

Digits ==
    {"0","1","2","3","4","5","6","7","8","9"}

\* The characters the class [a-zA-Z0-9 _-] of the key rule accepts.
KeyChars ==
    Lower \cup Upper \cup Digits \cup {" ", "_", "-"}

\* The byte values the model's texts and ciphertexts are made of, in a fixed
\* order (the order is the one the cipher's masking arithmetic works in).
ByteOrder ==
    << "{", "}", "\"", ":", ",", "\\", " ", "!", "_", "-", "#", "~",
       "a","b","c","d","e","f","g","h","i","j","k","l","m",
       "n","o","p","q","r","s","t","u","v","w","x","y","z",
       "0","1","2","3","4","5","6","7","8","9",
       "A","B","C","D","E","F","G","H","I","J","K","L","M",
       "N","O","P","Q","R","S","T","U","V","W","X","Y","Z", "\n" >>

NumBytes ==
    Len(ByteOrder)

ByteIndex(c) ==
    CHOOSE i \in 1..NumBytes : ByteOrder[i] = c

IsByte(c) ==
    \E i \in 1..NumBytes : ByteOrder[i] = c

\* String.prototype.startsWith / endsWith for a one-character argument.
startsWith(s, c) ==
    Len(s) >= 1 /\ s[1] = c

endsWith(s, c) ==
    Len(s) >= 1 /\ s[Len(s)] = c

\* String.prototype.trim (the only white space the inputs contain is " ").
RECURSIVE trimStart(_)
trimStart(s) ==
    IF Len(s) >= 1 /\ s[1] = " " THEN trimStart(Tail(s)) ELSE s

RECURSIVE trimEnd(_)
trimEnd(s) ==
    IF Len(s) >= 1 /\ s[Len(s)] = " " THEN trimEnd(SubSeq(s, 1, Len(s) - 1)) ELSE s

trim(s) ==
    trimEnd(trimStart(s))

(***************************************************************************)
(* Key validation (app.js line 103)                                        *)
(***************************************************************************)
\* /^[a-zA-Z0-9 _-]+$/.test(key)
MatchesKeyRegex(key) ==
    Len(key) >= 1 /\ \A i \in 1..Len(key) : key[i] \in KeyChars

\* Mutant: the test for a trailing space is missing.
isValidKeyNoEndTest(key) ==
    MatchesKeyRegex(key) /\ ~startsWith(key, " ")

isValidKey(key) ==
    MatchesKeyRegex(key) /\ ~startsWith(key, " ") /\ ~endsWith(key, " ")

(***************************************************************************)
(* JavaScript values: the store is whatever JSON.parse returned, or the    *)
(* object literal of line 33 as changed by lines 153 and 163.              *)
(*   string  [t |-> "string", s |-> characters]                            *)
(*   number  [t |-> "number", n |-> decimal digits]                        *)
(*   null    [t |-> "null"]                                                *)
(*   object  [t |-> "object", e |-> own properties in property order, each *)
(*            [k |-> key characters, v |-> value]]                         *)
(* Two more values appear only as results of a property read:              *)
(*   undefined, and a member inherited from the prototype.                 *)
(***************************************************************************)
Str(s) ==
    [t |-> "string", s |-> s]

Num(n) ==
    [t |-> "number", n |-> n]

Null ==
    [t |-> "null"]

Obj(e) ==
    [t |-> "object", e |-> e]

Undefined ==
    [t |-> "undefined"]

Inherited ==
    [t |-> "function"]

\* let store = {}   (line 33)
EmptyStore ==
    Obj(<< >>)

\* The error a statement throws, as the catch blocks see it: its class and
\* its message. A message is a sequence of fragments; includes(x) holds
\* when x is one of them.
Err(name, message) ==
    [name |-> name, message |-> message]

includes(message, fragment) ==
    \E i \in 1..Len(message) : message[i] = fragment

\* Property names every object inherits from Object.prototype.
ProtoKey ==
    <<"_","_","p","r","o","t","o","_","_">>

ConstructorKey ==
    <<"c","o","n","s","t","r","u","c","t","o","r">>

ObjectPrototypeKeys ==
    { ProtoKey, ConstructorKey,
      <<"t","o","S","t","r","i","n","g">>,
      <<"v","a","l","u","e","O","f">>,
      <<"t","o","L","o","c","a","l","e","S","t","r","i","n","g">>,
      <<"h","a","s","O","w","n","P","r","o","p","e","r","t","y">>,
      <<"i","s","P","r","o","t","o","t","y","p","e","O","f">>,
      <<"p","r","o","p","e","r","t","y","I","s","E","n","u","m","e","r","a","b","l","e">>,
      <<"_","_","d","e","f","i","n","e","G","e","t","t","e","r","_","_">>,
      <<"_","_","d","e","f","i","n","e","S","e","t","t","e","r","_","_">>,
      <<"_","_","l","o","o","k","u","p","G","e","t","t","e","r","_","_">>,
      <<"_","_","l","o","o","k","u","p","S","e","t","t","e","r","_","_">> }

\* Position of the own property k of object o, 0 when o has none.
OwnIndex(o, k) ==
    IF \E i \in 1..Len(o.e) : o.e[i].k = k
    THEN CHOOSE i \in 1..Len(o.e) : o.e[i].k = k
    ELSE 0

HasOwn(v, k) ==
    v.t = "object" /\ OwnIndex(v, k) > 0

OwnKeys(v) ==
    IF v.t = "object" THEN { v.e[i].k : i \in 1..Len(v.e) } ELSE {}

\* ToBoolean, as applied by  if (store[key])  (lines 150 and 162).
ToBoolean(v) ==
    CASE v.t = "string"    -> Len(v.s) > 0
      [] v.t = "number"    -> v.n # <<"0">>
      [] v.t = "null"      -> FALSE
      [] v.t = "undefined" -> FALSE
      [] OTHER             -> TRUE

\* store[k] read. Reading a property of null throws a TypeError; reading
\* one of a number looks it up on the prototype chain only.
GetThrows(v) ==
    v.t = "null"

Get(v, k) ==
    IF HasOwn(v, k) THEN v.e[OwnIndex(v, k)].v
    ELSE IF k \in ObjectPrototypeKeys THEN Inherited
    ELSE Undefined

\* store[k] = val with val a string (line 153), in non-strict code: an own
\* property is replaced in place; __proto__ without an own property reaches
\* the inherited setter, which ignores a value that is not an object;
\* any other new key is appended; an assignment to a property of a
\* number is dropped.
Put(v, k, val) ==
    IF v.t # "object" THEN v
    ELSE IF OwnIndex(v, k) > 0
         THEN Obj([v.e EXCEPT ![OwnIndex(v, k)].v = val])
    ELSE IF k = ProtoKey THEN v
    ELSE Obj(Append(v.e, [k |-> k, v |-> val]))

\* delete store[k] (line 163): removes an own property, nothing else.
Remove(v, k) ==
    IF v.t # "object" \/ OwnIndex(v, k) = 0 THEN v
    ELSE Obj(SubSeq(v.e, 1, OwnIndex(v, k) - 1)
             \o SubSeq(v.e, OwnIndex(v, k) + 1, Len(v.e)))

\* CreateDataProperty, as JSON.parse defines the members of an object: an
\* own property is always created or replaced, __proto__ included.
Define(o, k, val) ==
    IF OwnIndex(o, k) > 0
    THEN Obj([o.e EXCEPT ![OwnIndex(o, k)].v = val])
    ELSE Obj(Append(o.e, [k |-> k, v |-> val]))

(***************************************************************************)
(* JSON.stringify (lines 84 and 171) and JSON.parse (lines 66 and 120),    *)
(* for the values above. Texts are compact or indented by a gap.           *)
(*                                                                         *)
(* The JSON texts of the model are made of objects, strings (with the      *)
(* escapes \" \\ \n), non-negative integer literals and null. Keys that are  *)
(* canonical array indices ("0", "1", ...), which an object lists before   *)
(* its other keys, are not among the keys the model draws.                 *)
(***************************************************************************)
RECURSIVE Escape(_)
Escape(s) ==
    IF s = << >> THEN << >>
    ELSE (IF s[1] \in {"\"", "\\"} THEN <<"\\", s[1]>>
          ELSE IF s[1] = "\n" THEN <<"\\", "n">>
          ELSE <<s[1]>>) \o Escape(Tail(s))

Quote(s) ==
    <<"\"">> \o Escape(s) \o <<"\"">>

RECURSIVE Spaces(_)
Spaces(n) ==
    IF n <= 0 THEN << >> ELSE <<" ">> \o Spaces(n - 1)

\* stringify(v, gap, level): gap = 0 is the compact form of line 84, gap = 2
\* the indented form of line 171.
RECURSIVE stringify(_, _, _)
RECURSIVE stringifyMembers(_, _, _, _)
stringifyMembers(e, i, gap, level) ==
    IF i > Len(e) THEN << >>
    ELSE (IF gap > 0 THEN <<"\n">> \o Spaces(gap * level) ELSE << >>)
         \o Quote(e[i].k) \o <<":">> \o (IF gap > 0 THEN <<" ">> ELSE << >>)
         \o stringify(e[i].v, gap, level)
         \o (IF i < Len(e) THEN <<",">> ELSE << >>)
         \o stringifyMembers(e, i + 1, gap, level)

stringify(v, gap, level) ==
    CASE v.t = "string" -> Quote(v.s)
      [] v.t = "number" -> v.n
      [] v.t = "null"   -> <<"n","u","l","l">>
      [] OTHER ->
           IF v.e = << >> THEN <<"{", "}">>
           ELSE <<"{">> \o stringifyMembers(v.e, 1, gap, level + 1)
                \o (IF gap > 0 THEN <<"\n">> \o Spaces(gap * level) ELSE << >>)
                \o <<"}">>

JSONstringify(v) ==
    stringify(v, 0, 0)

\* JSON.stringify(store, null, 2)
JSONstringifyIndented(v) ==
    stringify(v, 2, 0)

\* Parser results: [ok |-> TRUE, v |-> value, next |-> position after it],
\* or ParseFail, the SyntaxError JSON.parse throws.
ParseFail ==
    [ok |-> FALSE]

Parsed(v, next) ==
    [ok |-> TRUE, v |-> v, next |-> next]

JsonWhite ==
    {" ", "\n"}

RECURSIVE skipWhite(_, _)
skipWhite(t, i) ==
    IF i <= Len(t) /\ t[i] \in JsonWhite THEN skipWhite(t, i + 1) ELSE i

\* Characters of a string literal from position i (after the opening quote).
RECURSIVE parseChars(_, _, _)
parseChars(t, i, acc) ==
    IF i > Len(t) THEN ParseFail
    ELSE IF t[i] = "\"" THEN Parsed(Str(acc), i + 1)
    ELSE IF t[i] = "\n" THEN ParseFail
    ELSE IF t[i] = "\\"
         THEN IF i + 1 <= Len(t) /\ t[i + 1] \in {"\"", "\\"}
              THEN parseChars(t, i + 2, Append(acc, t[i + 1]))
              ELSE IF i + 1 <= Len(t) /\ t[i + 1] = "n"
              THEN parseChars(t, i + 2, Append(acc, "\n"))
              ELSE ParseFail
    ELSE parseChars(t, i + 1, Append(acc, t[i]))

RECURSIVE parseDigits(_, _)
parseDigits(t, i) ==
    IF i <= Len(t) /\ t[i] \in Digits THEN parseDigits(t, i + 1) ELSE i

RECURSIVE parseValue(_, _)
RECURSIVE parseMembers(_, _, _)
\* Members of an object from position i, obj holding the ones read so far;
\* i is at a member's opening quote.
parseMembers(t, i, obj) ==
    IF i > Len(t) \/ t[i] # "\"" THEN ParseFail
    ELSE LET name == parseChars(t, i + 1, << >>) IN
         IF ~name.ok THEN ParseFail
         ELSE LET c == skipWhite(t, name.next) IN
              IF c > Len(t) \/ t[c] # ":" THEN ParseFail
              ELSE LET val == parseValue(t, skipWhite(t, c + 1)) IN
                   IF ~val.ok THEN ParseFail
                   ELSE LET d  == skipWhite(t, val.next)
                            o2 == Define(obj, name.v.s, val.v)
                        IN IF d > Len(t) THEN ParseFail
                           ELSE IF t[d] = "}" THEN Parsed(o2, d + 1)
                           ELSE IF t[d] = ","
                                THEN parseMembers(t, skipWhite(t, d + 1), o2)
                           ELSE ParseFail

parseValue(t, i) ==
    IF i > Len(t) THEN ParseFail
    ELSE IF t[i] = "\"" THEN parseChars(t, i + 1, << >>)
    ELSE IF t[i] = "{"
         THEN LET j == skipWhite(t, i + 1) IN
              IF j <= Len(t) /\ t[j] = "}" THEN Parsed(EmptyStore, j + 1)
              ELSE parseMembers(t, j, EmptyStore)
    ELSE IF t[i] = "0" THEN Parsed(Num(<<"0">>), i + 1)
    ELSE IF t[i] \in Digits
         THEN Parsed(Num(SubSeq(t, i, parseDigits(t, i) - 1)), parseDigits(t, i))
    ELSE IF i + 3 <= Len(t) /\ SubSeq(t, i, i + 3) = <<"n","u","l","l">>
         THEN Parsed(Null, i + 4)
    ELSE ParseFail

\* JSON.parse(text): one value, white space around it, nothing after it.
JSONparse(t) ==
    LET r == parseValue(t, skipWhite(t, 1)) IN
    IF r.ok /\ skipWhite(t, r.next) > Len(t) THEN r ELSE ParseFail

(***************************************************************************)
(* Bounds of the model                                                     *)
(***************************************************************************)
\* Prompts answered in one run of the model, over all its sessions.
MaxSteps ==
    7

\* Processes started one after the other on the same store file.
MaxSessions ==
    2

\* Largest plaintext, in bytes, that publicEncrypt accepts for the key
\* pairs of the model (for RSA-OAEP: modulus size - 2 * hash size - 2).
OaepCapacity ==
    10

(***************************************************************************)
(* The files the prompts can name, and RSA-OAEP as crypto.privateDecrypt   *)
(* and crypto.publicEncrypt provide it (lines 61-65 and 85-88).            *)
(*                                                                         *)
(* A path is a sequence of fragments of its name. A key file holds the     *)
(* private or the public half of a key pair, or it is no key at all.       *)
(***************************************************************************)
Priv1Path ==
    <<"priv1.pem">>

Priv2Path ==
    <<"priv2.pem">>

Pub1Path ==
    <<"pub1.pem">>

NotesPath ==
    <<"notes.txt">>

MissingPath ==
    <<"missing.pem">>

MissingInvalidKeyPath ==
    <<"invalid key", ".pem">>

KeyPaths ==
    {Priv1Path, Priv2Path, Pub1Path, NotesPath, MissingPath, MissingInvalidKeyPath}

FileExistsAt(path) ==
    path \in {Priv1Path, Priv2Path, Pub1Path, NotesPath}

\* Content of an existing key file.
KeyFileAt(path) ==
    CASE path = Priv1Path -> [kind |-> "private", pair |-> 1]
      [] path = Priv2Path -> [kind |-> "private", pair |-> 2]
      [] path = Pub1Path  -> [kind |-> "public",  pair |-> 1]
      [] OTHER            -> [kind |-> "text",    pair |-> 0]

\* Messages of the errors the file system and the crypto library throw.
NoSuchFile(path) ==
    Err("Error", <<"ENOENT: no such file or directory, open '">> \o path \o <<"'">>)

PermissionDenied ==
    Err("Error", <<"EACCES: permission denied, open '", "STORE_FILE", "'">>)

UnsupportedKey ==
    Err("Error", <<"error:1E08010C:DECODER routines::unsupported">>)

OaepDecodingError ==
    Err("Error", <<"error:02000079:rsa routines::oaep decoding error">>)

DataTooLarge ==
    Err("Error", <<"error:0200006E:rsa routines::data too large for key size">>)

JsonSyntaxError ==
    Err("SyntaxError", <<"Unexpected token in JSON">>)

NullPropertyError ==
    Err("TypeError", <<"Cannot read properties of null">>)

\* Results of a call: a value returned or an error thrown.
Returned(v) ==
    [threw |-> FALSE, v |-> v]

Threw(error) ==
    [threw |-> TRUE, error |-> error]

\* fs.readFileSync(path, 'utf8') of a key file.
readKeyFile(path) ==
    IF FileExistsAt(path) THEN Returned(KeyFileAt(path)) ELSE Threw(NoSuchFile(path))

\* The label hash OAEP puts in front of the message, and the random seeds
\* publicEncrypt can draw. The seed decides the first byte of the
\* ciphertext, which can be any byte value, "{" included.
LHash ==
    "#"

Seeds ==
    {"{", "~"}

KeyShift(pair) ==
    7 * pair

MaskByte(c, shift) ==
    ByteOrder[((ByteIndex(c) - 1 + shift) % NumBytes) + 1]

MaskBytes(m, shift) ==
    [i \in 1..Len(m) |-> MaskByte(m[i], shift)]

\* crypto.publicEncrypt({key, padding: RSA_PKCS1_OAEP_PADDING}, data) with
\* the given seed. A private key is accepted too (its public half is used).
publicEncrypt(keyFile, data, seed) ==
    IF keyFile.kind \notin {"public", "private"} THEN Threw(UnsupportedKey)
    ELSE IF Len(data) > OaepCapacity THEN Threw(DataTooLarge)
    ELSE Returned(<<seed>> \o MaskBytes(<<LHash>> \o data,
                                         KeyShift(keyFile.pair) + ByteIndex(seed)))

\* crypto.privateDecrypt({key, padding: RSA_PKCS1_OAEP_PADDING}, data).
privateDecrypt(keyFile, data) ==
    IF keyFile.kind # "private" THEN Threw(UnsupportedKey)
    ELSE IF Len(data) < 2 \/ \E i \in 1..Len(data) : ~IsByte(data[i])
         THEN Threw(OaepDecodingError)
    ELSE LET shift == KeyShift(keyFile.pair) + ByteIndex(data[1])
             db    == MaskBytes(Tail(data), NumBytes - (shift % NumBytes))
         IN IF db[1] # LHash THEN Threw(OaepDecodingError)
            ELSE Returned(Tail(db))

(***************************************************************************)
(* Console lines. Each is its fixed text and the values interpolated in    *)
(* it (sequences of characters or of message fragments).                   *)
(***************************************************************************)
Msg(line, args) ==
    [line |-> line, args |-> args]

Line(line) ==
    Msg(line, << >>)

(***************************************************************************)
(* isEncrypted (lines 50-53): data.toString().startsWith('{') negated      *)
(***************************************************************************)
\* Mutant: white space before the first brace is skipped.
isEncryptedTrimmed(data) ==
    ~startsWith(trimStart(data), "{")

\* Mutant: the content is plaintext when it parses as JSON.
isEncryptedByParse(data) ==
    ~JSONparse(data).ok

isEncrypted(data) ==
    ~startsWith(data, "{")

(***************************************************************************)
(* decryptStore (lines 57-76). The result is either the value returned to  *)
(* line 111 or the process exit the catch block performs.                  *)
(***************************************************************************)
ExitWith(code, lines) ==
    [exit |-> TRUE, code |-> code, out |-> lines]

ReturnValue(v) ==
    [exit |-> FALSE, v |-> v]

\* Mutant: a catch block that does not tell the error classes apart.
decryptStoreCatchOneKind(error) ==
    ExitWith(2, <<Line("Invalid store file.")>>)

\* catch (error) of lines 67-75
decryptStoreCatch(error) ==
    IF error.name = "SyntaxError"
    THEN ExitWith(2, <<Line("Invalid store file.")>>)
    ELSE ExitWith(3, <<Line("Decryption failed."),
                       Msg("Error details:", <<error.message>>)>>)

decryptStore(privateKeyPath, encryptedData) ==
    LET privateKey == readKeyFile(privateKeyPath) IN
    IF privateKey.threw THEN decryptStoreCatch(privateKey.error)
    ELSE LET decryptedData == privateDecrypt(privateKey.v, encryptedData) IN
         IF decryptedData.threw THEN decryptStoreCatch(decryptedData.error)
         ELSE LET parsed == JSONparse(decryptedData.v) IN
              IF ~parsed.ok THEN decryptStoreCatch(JsonSyntaxError)
              ELSE ReturnValue(parsed.v)

(***************************************************************************)
(* encryptStore (lines 80-100), after its prompt was answered. The result  *)
(* is either the bytes written before process.exit(0), or the lines the    *)
(* catch block reports. writable = FALSE is a store file that              *)
(* fs.writeFileSync cannot open (the file is then left as it was).         *)
(***************************************************************************)
\* Mutant: a catch block that swallows the error.
encryptStoreCatchSilent(error) ==
    [saved |-> FALSE, out |-> << >>]

\* catch (error) of lines 92-99
encryptStoreCatch(error) ==
    IF includes(error.message, "invalid key")
    THEN [saved |-> FALSE, out |-> <<Line("Invalid public key file.")>>]
    ELSE [saved |-> FALSE, out |-> <<Line("Encryption failed."),
                                     Msg("Error details:", <<error.message>>)>>]

\* Mutant: the serialized store is written instead of its ciphertext.
encryptStoreWritesPlaintext(publicKeyPath, storeValue, seed, writable) ==
    LET publicKey == readKeyFile(publicKeyPath) IN
    IF publicKey.threw THEN encryptStoreCatch(publicKey.error)
    ELSE LET dataBuffer    == JSONstringify(storeValue)
             encryptedData == publicEncrypt(publicKey.v, dataBuffer, seed)
         IN IF encryptedData.threw THEN encryptStoreCatch(encryptedData.error)
            ELSE IF ~writable THEN encryptStoreCatch(PermissionDenied)
            ELSE [saved |-> TRUE, data |-> dataBuffer,
                  out |-> <<Line("Store encrypted and saved.")>>]

\* Mutant: a payload over the capacity is cut to the capacity.
encryptStoreTruncating(publicKeyPath, storeValue, seed, writable) ==
    LET publicKey == readKeyFile(publicKeyPath) IN
    IF publicKey.threw THEN encryptStoreCatch(publicKey.error)
    ELSE LET whole         == JSONstringify(storeValue)
             dataBuffer    == IF Len(whole) > OaepCapacity
                              THEN SubSeq(whole, 1, OaepCapacity) ELSE whole
             encryptedData == publicEncrypt(publicKey.v, dataBuffer, seed)
         IN IF encryptedData.threw THEN encryptStoreCatch(encryptedData.error)
            ELSE IF ~writable THEN encryptStoreCatch(PermissionDenied)
            ELSE [saved |-> TRUE, data |-> encryptedData.v,
                  out |-> <<Line("Store encrypted and saved.")>>]

encryptStore(publicKeyPath, storeValue, seed, writable) ==
    LET publicKey == readKeyFile(publicKeyPath) IN
    IF publicKey.threw THEN encryptStoreCatch(publicKey.error)
    ELSE LET dataBuffer    == JSONstringify(storeValue)
             encryptedData == publicEncrypt(publicKey.v, dataBuffer, seed)
         IN IF encryptedData.threw THEN encryptStoreCatch(encryptedData.error)
            ELSE IF ~writable THEN encryptStoreCatch(PermissionDenied)
            ELSE [saved |-> TRUE, data |-> encryptedData.v,
                  out |-> <<Line("Store encrypted and saved.")>>]

(***************************************************************************)
(* State of a session (one process run on STORE_FILE)                      *)
(***************************************************************************)
VARIABLES
    STORE_FILE,      \* args[0], the path of the store file (line 7)
    storeFile,       \* the file at STORE_FILE on disk: [exists, data]
    store,           \* let store (line 33)
    pc,              \* where main is: "start", a prompt it awaits, "exited"
    exitCode,        \* the process exit code, once pc = "exited"
    rlClosed,        \* rl.close() was called (line 180)
    out,             \* console lines written by the last step
    key,             \* const key of the add loop (line 143)
    delKey,          \* const delKey of the delete case (line 160)
    privateKeyPath,  \* the answer given at line 110
    publicKeyPath,   \* the answer given at line 81
    attempts,        \* calls of encryptStore in this session that got a path
    writes,          \* fs.writeFileSync calls of this session that returned
    session,         \* number of the running process
    steps,           \* prompts answered so far
    prev             \* the session before: whether it saved, with which
                     \* key file, and the store it ended with

vars ==
    <<STORE_FILE, storeFile, store, pc, exitCode, rlClosed, out, key, delKey,
      privateKeyPath, publicKeyPath, attempts, writes, session, steps, prev>>

NoPath ==
    << >>

\* Texts a store file may hold when a session starts.
TextEmpty ==
    <<"{", "}">>

TextA1 ==
    <<"{", "\"", "a", "\"", ":", "\"", "1", "\"", "}">>

TextAEmptyValue ==
    <<"{", "\"", "a", "\"", ":", "\"", "\"", "}">>

TextBadKey ==
    <<"{", "\"", "b", "!", "\"", ":", "\"", "1", "\"", "}">>

TextNumberValue ==
    <<"{", "\"", "a", "\"", ":", "1", "}">>

TextTruncated ==
    <<"{", "\"", "a", "\"">>

TextNull ==
    <<"n", "u", "l", "l">>

TextLeadingSpace ==
    <<" ", "{", "}">>

PlainFiles ==
    {TextEmpty, TextA1, TextAEmptyValue, TextBadKey, TextNumberValue,
     TextTruncated, TextLeadingSpace, << >>}

\* Ciphertexts made with the public key of pair 1.
CipherOf(text, seed) ==
    publicEncrypt(KeyFileAt(Pub1Path), text, seed).v

CipherFiles ==
    {CipherOf(TextA1, "~"), CipherOf(TextA1, "{"), CipherOf(TextNull, "~"),
     CipherOf(TextTruncated, "~"), CipherOf(TextBadKey, "~")}

NoFile ==
    [exists |-> FALSE, data |-> << >>]

FileWith(data) ==
    [exists |-> TRUE, data |-> data]

InitFiles ==
    {NoFile} \cup {FileWith(d) : d \in PlainFiles \cup CipherFiles}

\* Paths the store file can be given on the command line.
StorePaths ==
    {<<"store", ".encjson">>, <<"store", ".json">>}

\* Answers the user can type at the prompts.
MenuChoices ==
    {<<"1">>, <<"2">>, <<"3">>, <<"4">>, <<"5">>, <<" ", "4", " ">>, <<"9">>, << >>}

KeyInputs ==
    {<< >>, <<"a">>, <<"b", "!">>, <<" ", "a">>, ProtoKey, ConstructorKey}

ValueInputs ==
    {<< >>, <<"1">>, <<"2">>, <<"\"">>}

Init ==
    /\ STORE_FILE \in StorePaths
    /\ storeFile \in InitFiles
    /\ store = EmptyStore
    /\ pc = "start"
    /\ exitCode = 0
    /\ rlClosed = FALSE
    /\ out = << >>
    /\ key = << >>
    /\ delKey = << >>
    /\ privateKeyPath = NoPath
    /\ publicKeyPath = NoPath
    /\ attempts = 0
    /\ writes = 0
    /\ session = 1
    /\ steps = 0
    /\ prev = [saved |-> FALSE, publicKeyPath |-> NoPath, store |-> EmptyStore]

\* process.exit(code) after the lines were written.
Exit(code, lines) ==
    /\ pc' = "exited"
    /\ exitCode' = code
    /\ out' = lines

\* A TypeError thrown inside main is an unhandled rejection of main():
\* the process prints it and ends with exit code 1.
Crash(error) ==
    Exit(1, <<Msg("Uncaught", <<error.message>>)>>)

(***************************************************************************)
(* main, lines 107-126: load up to the first prompt                        *)
(***************************************************************************)
Start ==
    /\ pc = "start"
    /\ IF ~storeFile.exists
       THEN /\ pc' = "menu"
            /\ out' = << >>
            /\ UNCHANGED <<store, exitCode>>
       ELSE IF isEncrypted(storeFile.data)
       THEN /\ pc' = "askPrivateKey"
            /\ out' = << >>
            /\ UNCHANGED <<store, exitCode>>
       ELSE LET parsed == JSONparse(storeFile.data)
                notice == Line("Store is not encrypted. Proceeding with the existing data.")
            IN IF parsed.ok
               THEN /\ store' = parsed.v
                    /\ pc' = "menu"
                    /\ out' = <<notice>>
                    /\ UNCHANGED exitCode
               ELSE /\ Exit(2, <<notice, Line("Invalid store file.")>>)
                    /\ UNCHANGED store
    /\ UNCHANGED <<STORE_FILE, storeFile, rlClosed, key, delKey, privateKeyPath,
                   publicKeyPath, attempts, writes, session, steps, prev>>

\* Lines 110-112: the private key prompt is answered.
AnswerPrivateKey(path) ==
    /\ pc = "askPrivateKey"
    /\ steps < MaxSteps
    /\ steps' = steps + 1
    /\ privateKeyPath' = path
    /\ LET r == decryptStore(path, storeFile.data) IN
       IF r.exit
       THEN /\ Exit(r.code, r.out)
            /\ UNCHANGED store
       ELSE /\ store' = r.v
            /\ pc' = "menu"
            /\ out' = <<Line("Store successfully decrypted.")>>
            /\ UNCHANGED exitCode
    /\ UNCHANGED <<STORE_FILE, storeFile, rlClosed, key, delKey, publicKeyPath, attempts,
                   writes, session, prev>>

(***************************************************************************)
(* main, lines 129-186: the menu                                           *)
(***************************************************************************)
\* Lines 139-140 and the cases up to their first prompt.
Choose(choice) ==
    /\ pc = "menu"
    /\ steps < MaxSteps
    /\ steps' = steps + 1
    /\ LET c == trim(choice) IN
       CASE c = <<"1">> ->
              /\ pc' = "askKey"
              /\ out' = << >>
              /\ UNCHANGED <<exitCode, rlClosed>>
         [] c = <<"2">> ->
              /\ pc' = "askDelKey"
              /\ out' = << >>
              /\ UNCHANGED <<exitCode, rlClosed>>
         [] c = <<"3">> ->
              /\ pc' = "menu"
              /\ out' = <<Msg("Current store:", <<JSONstringifyIndented(store)>>)>>
              /\ UNCHANGED <<exitCode, rlClosed>>
         [] c = <<"4">> ->
              /\ pc' = "askPublicKey"
              /\ out' = << >>
              /\ UNCHANGED <<exitCode, rlClosed>>
         [] c = <<"5">> ->
              /\ rlClosed' = TRUE
              /\ Exit(0, <<Line("Exiting without encryption")>>)
         [] OTHER ->
              /\ pc' = "menu"
              /\ out' = <<Line("Invalid option. Please choose a no between 1 and 5.")>>
              /\ UNCHANGED <<exitCode, rlClosed>>
    /\ UNCHANGED <<STORE_FILE, storeFile, store, key, delKey, privateKeyPath,
                   publicKeyPath, attempts, writes, session, prev>>

\* Mutant: the isValidKey test of line 145 is missing.
AnswerKeyNoValidation(k) ==
    /\ pc = "askKey"
    /\ steps < MaxSteps
    /\ steps' = steps + 1
    /\ key' = k
    /\ IF k = << >>
       THEN /\ pc' = "menu"
            /\ out' = << >>
       ELSE /\ pc' = "askValue"
            /\ out' = << >>
    /\ UNCHANGED <<STORE_FILE, storeFile, store, exitCode, rlClosed, delKey, privateKeyPath,
                   publicKeyPath, attempts, writes, session, prev>>

\* Lines 143-148: the key prompt of the add loop is answered.
AnswerKey(k) ==
    /\ pc = "askKey"
    /\ steps < MaxSteps
    /\ steps' = steps + 1
    /\ key' = k
    /\ IF k = << >>
       THEN /\ pc' = "menu"
            /\ out' = << >>
       ELSE IF ~isValidKey(k)
       THEN /\ pc' = "askKey"
            /\ out' = <<Line("Invalid key. Please enter a valid key.")>>
       ELSE /\ pc' = "askValue"
            /\ out' = << >>
    /\ UNCHANGED <<STORE_FILE, storeFile, store, exitCode, rlClosed, delKey, privateKeyPath,
                   publicKeyPath, attempts, writes, session, prev>>

\* Mutant: every add also writes the serialized store to the store file.
AnswerValueAutosave(value) ==
    /\ pc = "askValue"
    /\ steps < MaxSteps
    /\ steps' = steps + 1
    /\ key' = << >>
    /\ IF GetThrows(store)
       THEN /\ Crash(NullPropertyError)
            /\ UNCHANGED <<store, storeFile>>
       ELSE /\ store' = Put(store, key, Str(value))
            /\ storeFile' = [exists |-> TRUE, data |-> JSONstringify(store')]
            /\ pc' = "menu"
            /\ out' = (IF ToBoolean(Get(store, key))
                       THEN <<Msg("Warning: Key already exists. Value was overwritten.",
                                  <<key>>)>>
                       ELSE << >>)
                      \o <<Msg("Added/Updated", <<key, value>>)>>
            /\ UNCHANGED exitCode
    /\ UNCHANGED <<STORE_FILE, rlClosed, delKey, privateKeyPath, publicKeyPath,
                   attempts, writes, session, prev>>

\* Lines 149-155: the value prompt is answered.
AnswerValue(value) ==
    /\ pc = "askValue"
    /\ steps < MaxSteps
    /\ steps' = steps + 1
    /\ key' = << >>
    /\ IF GetThrows(store)
       THEN /\ Crash(NullPropertyError)
            /\ UNCHANGED store
       ELSE /\ store' = Put(store, key, Str(value))
            /\ pc' = "menu"
            /\ out' = (IF ToBoolean(Get(store, key))
                       THEN <<Msg("Warning: Key already exists. Value was overwritten.",
                                  <<key>>)>>
                       ELSE << >>)
                      \o <<Msg("Added/Updated", <<key, value>>)>>
            /\ UNCHANGED exitCode
    /\ UNCHANGED <<STORE_FILE, storeFile, rlClosed, delKey, privateKeyPath, publicKeyPath,
                   attempts, writes, session, prev>>

\* Lines 160-168: the delete prompt is answered.
AnswerDelKey(answer) ==
    /\ pc = "askDelKey"
    /\ steps < MaxSteps
    /\ steps' = steps + 1
    /\ delKey' = answer
    /\ IF answer = << >>
       THEN /\ pc' = "menu"
            /\ out' = << >>
            /\ UNCHANGED <<store, exitCode>>
       ELSE IF GetThrows(store)
       THEN /\ Crash(NullPropertyError)
            /\ UNCHANGED store
       ELSE IF ToBoolean(Get(store, answer))
       THEN /\ store' = Remove(store, answer)
            /\ pc' = "menu"
            /\ out' = <<Msg("Deleted key:", <<answer>>)>>
            /\ UNCHANGED exitCode
       ELSE /\ pc' = "menu"
            /\ out' = <<Line("Key not found.")>>
            /\ UNCHANGED <<store, exitCode>>
    /\ UNCHANGED <<STORE_FILE, storeFile, rlClosed, key, privateKeyPath, publicKeyPath,
                   attempts, writes, session, prev>>

\* Mutant: process.exit(0) of line 91 is missing, the menu goes on.
AnswerPublicKeyNoExit(path, seed, writable) ==
    /\ pc = "askPublicKey"
    /\ steps < MaxSteps
    /\ steps' = steps + 1
    /\ publicKeyPath' = path
    /\ attempts' = attempts + 1
    /\ pc' = "menu"
    /\ LET r == encryptStore(path, store, seed, writable) IN
       IF r.saved
       THEN /\ storeFile' = FileWith(r.data)
            /\ writes' = writes + 1
            /\ out' = r.out
       ELSE /\ out' = r.out
            /\ UNCHANGED <<storeFile, writes>>
    /\ UNCHANGED <<STORE_FILE, store, exitCode, rlClosed, key, delKey, privateKeyPath,
                   session, prev>>

\* Lines 81-99: the public key prompt of encryptStore is answered.
AnswerPublicKey(path, seed, writable) ==
    /\ pc = "askPublicKey"
    /\ steps < MaxSteps
    /\ steps' = steps + 1
    /\ publicKeyPath' = path
    /\ attempts' = attempts + 1
    /\ LET r == encryptStore(path, store, seed, writable) IN
       IF r.saved
       THEN /\ storeFile' = FileWith(r.data)
            /\ writes' = writes + 1
            /\ Exit(0, r.out)
       ELSE /\ pc' = "menu"
            /\ out' = r.out
            /\ UNCHANGED <<storeFile, writes, exitCode>>
    /\ UNCHANGED <<STORE_FILE, store, rlClosed, key, delKey, privateKeyPath,
                   session, prev>>

\* The next process is started on the same store file.
NewSession ==
    /\ pc = "exited"
    /\ session < MaxSessions
    /\ session' = session + 1
    /\ prev' = [saved |-> writes > 0, publicKeyPath |-> publicKeyPath,
                store |-> store]
    /\ store' = EmptyStore
    /\ pc' = "start"
    /\ exitCode' = 0
    /\ rlClosed' = FALSE
    /\ out' = << >>
    /\ key' = << >>
    /\ delKey' = << >>
    /\ privateKeyPath' = NoPath
    /\ publicKeyPath' = NoPath
    /\ attempts' = 0
    /\ writes' = 0
    /\ UNCHANGED <<STORE_FILE, storeFile, steps>>

Next ==
    \/ Start
    \/ \E path \in KeyPaths : AnswerPrivateKey(path)
    \/ \E choice \in MenuChoices : Choose(choice)
    \/ \E k \in KeyInputs : AnswerKey(k)
    \/ \E value \in ValueInputs : AnswerValue(value)
    \/ \E answer \in KeyInputs : AnswerDelKey(answer)
    \/ \E path \in KeyPaths, seed \in Seeds, writable \in BOOLEAN :
          AnswerPublicKey(path, seed, writable)
    \/ NewSession

Spec ==
    Init /\ [][Next]_vars

(***************************************************************************)
(* Vocabulary of the properties                                            *)
(***************************************************************************)
HasLine(lines, line) ==
    \E i \in 1..Len(lines) : lines[i].line = line

WarningLine ==
    "Warning: Key already exists. Value was overwritten."

\* A Store of the data model: an object whose values are all strings.
IsStore(v) ==
    v.t = "object" /\ \A i \in 1..Len(v.e) : v.e[i].v.t = "string"

\* main is inside the menu loop of lines 129-186.
InMenuLoop ==
    pc \in {"menu", "askKey", "askValue", "askDelKey", "askPublicKey"}

\* Steps by what they complete.
AddStep ==
    pc = "askValue" /\ pc' # "askValue"

DeleteStep ==
    pc = "askDelKey" /\ pc' # "askDelKey" /\ delKey' # << >>

LoadStep ==
    pc \in {"start", "askPrivateKey"} /\ pc' \in {"menu", "exited"}

SaveStep ==
    pc = "askPublicKey" /\ pc' # "askPublicKey"

\* The bytes a load step hands to JSON.parse: the file for a plaintext
\* file, the decrypted bytes otherwise; threw when there are none.
LoadedText ==
    IF pc = "start" THEN Returned(storeFile.data)
    ELSE LET privateKey == readKeyFile(privateKeyPath') IN
         IF privateKey.threw THEN privateKey
         ELSE privateDecrypt(privateKey.v, storeFile.data)

(***************************************************************************)
(* C1. Add with a valid key k and value v: a warning is reported exactly   *)
(* when k is already a key of the store (whatever its value); afterwards   *)
(* the store maps k to v and every other entry is unchanged.               *)
(***************************************************************************)
C1_AddOverwrite ==
    [][AddStep =>
         /\ pc' = "menu"
         /\ out'[Len(out')].line = "Added/Updated"
         /\ out'[Len(out')].args[1] = key
         /\ HasOwn(store', key)
         /\ Get(store', key) = Str(out'[Len(out')].args[2])
         /\ HasOwn(store, key) <=> HasLine(out', WarningLine)
         /\ \A k2 \in (OwnKeys(store) \cup OwnKeys(store')) \ {key} :
                /\ HasOwn(store, k2)
                /\ HasOwn(store', k2)
                /\ Get(store', k2) = Get(store, k2)
      ]_vars

(***************************************************************************)
(* C2. Delete with key k: when k is not a key of the store, 'Key not       *)
(* found.' is reported and the store is unchanged; when k is a key of the  *)
(* store (whatever its value), exactly the entry of k is removed, every    *)
(* other entry is unchanged and 'Key not found.' is not reported.          *)
(***************************************************************************)
C2_Delete ==
    [][DeleteStep =>
         /\ pc' = "menu"
         /\ IF HasOwn(store, delKey')
            THEN /\ OwnKeys(store') = OwnKeys(store) \ {delKey'}
                 /\ \A k2 \in OwnKeys(store') : Get(store', k2) = Get(store, k2)
                 /\ ~HasLine(out', "Key not found.")
            ELSE /\ HasLine(out', "Key not found.")
                 /\ store' = store
      ]_vars

(***************************************************************************)
(* C3. When a load ends in the menu loop the store is a mapping from       *)
(* string keys to string values: empty when there is no store file,        *)
(* otherwise the mapping serialized in the (decrypted) file; content that  *)
(* is not a serialized Store ends the load with exit code 2 instead.       *)
(***************************************************************************)
C3_LoadedStoreIsMapping ==
    [][LoadStep =>
         /\ (pc' = "menu" => IsStore(store'))
         /\ (~storeFile.exists => pc' = "menu" /\ store' = EmptyStore)
         /\ (storeFile.exists /\ ~LoadedText.threw) =>
               LET parsed == JSONparse(LoadedText.v) IN
               IF parsed.ok /\ IsStore(parsed.v)
               THEN pc' = "menu" /\ store' = parsed.v
               ELSE pc' = "exited" /\ exitCode' = 2
      ]_vars

(***************************************************************************)
(* C6. No terminal state is reached with the readline interface still      *)
(* open: rl is closed on every transition that ends the session.           *)
(***************************************************************************)
C6_ChannelClosedAtExit ==
    pc = "exited" => rlClosed

(***************************************************************************)
(* C7. While the menu loop is running every key of the store satisfies     *)
(* the key rule, whether add inserted it or the load populated it.         *)
(***************************************************************************)
C7_StoreKeysValid ==
    InMenuLoop => \A k \in OwnKeys(store) : isValidKey(k)

\* A key file that publicEncrypt can use.
UsableKeyAt(path) ==
    FileExistsAt(path) /\ KeyFileAt(path).kind \in {"public", "private"}

\* privPath holds the private key of the pair pubPath encrypts for.
Matches(privPath, pubPath) ==
    /\ FileExistsAt(privPath)
    /\ KeyFileAt(privPath).kind = "private"
    /\ UsableKeyAt(pubPath)
    /\ KeyFileAt(privPath).pair = KeyFileAt(pubPath).pair

(***************************************************************************)
(* C4. Load failures end the session, told apart by exit code: exit code 3 *)
(* (never 2) when the file is classified Encrypted and privateDecrypt      *)
(* rejects the ciphertext/private-key pair, exit code 2 when the decrypted *)
(* or plaintext content does not parse. A session ends with exit code 2 or *)
(* 3 only out of the load, with the store file as it was.                  *)
(***************************************************************************)
C4_LoadFailureExitCodes ==
    [][/\ (LoadStep /\ storeFile.exists) =>
            /\ (pc = "askPrivateKey" /\ FileExistsAt(privateKeyPath')
                  /\ LoadedText.threw) => (pc' = "exited" /\ exitCode' = 3)
            /\ (~LoadedText.threw /\ ~JSONparse(LoadedText.v).ok) =>
                  (pc' = "exited" /\ exitCode' = 2)
            /\ pc' = "exited" =>
                  (exitCode' \in {2, 3} /\ storeFile' = storeFile /\ store' = store)
       /\ (pc # "exited" /\ pc' = "exited" /\ exitCode' \in {2, 3}) => LoadStep
      ]_vars

\* Wrong private key against a valid ciphertext: exit code 3.
C4_Witness ==
    /\ pc = "exited"
    /\ exitCode = 3
    /\ privateKeyPath = Priv2Path
    /\ storeFile = FileWith(CipherOf(TextA1, "~"))

(***************************************************************************)
(* C5. A failed encrypt-and-save is reported and recoverable: the store is *)
(* what it was, the session is back in the menu loop and has not ended;    *)
(* only a save that wrote the file ends the session.                       *)
(***************************************************************************)
C5_SaveFailureRecoverable ==
    [][SaveStep =>
         IF writes' = writes + 1
         THEN pc' = "exited" /\ HasLine(out', "Store encrypted and saved.")
         ELSE /\ pc' = "menu"
              /\ store' = store
              /\ storeFile' = storeFile
              /\ rlClosed' = rlClosed
              /\ exitCode' = exitCode
              /\ HasLine(out', "Invalid public key file.")
                    \/ HasLine(out', "Encryption failed.")
              /\ ~HasLine(out', "Store encrypted and saved.")
      ]_vars

\* A save that succeeded after an earlier attempt of the session failed.
C5_Witness ==
    /\ pc = "exited"
    /\ writes = 1
    /\ attempts >= 2
    /\ store # EmptyStore

(***************************************************************************)
(* C8. Lifecycle: a successful encrypt-and-save ends the session with exit *)
(* code 0, so a session writes the store file at most once; option 5 ends  *)
(* it with exit code 0 without writing; and nothing happens in a session   *)
(* after it reached a terminal state (only a new process follows).         *)
(***************************************************************************)
C8_Lifecycle ==
    [][/\ writes' <= 1
       /\ (storeFile' # storeFile) => writes' = writes + 1
       /\ (writes' = writes + 1) =>
             (SaveStep /\ pc' = "exited" /\ exitCode' = 0)
       /\ (pc = "menu" /\ pc' = "exited") =>
             /\ exitCode' = 0
             /\ storeFile' = storeFile
             /\ writes' = writes
             /\ HasLine(out', "Exiting without encryption")
       /\ (pc = "exited") => session' = session + 1
      ]_vars

\* Saved: the session ended by its one write of the store file.
C8_Witness ==
    /\ pc = "exited"
    /\ exitCode = 0
    /\ writes = 1
    /\ HasLine(out, "Store encrypted and saved.")
    /\ storeFile.exists

(***************************************************************************)
(* C9. Round trip. Decrypting, with a matching private key, the bytes a    *)
(* save wrote yields the store that was saved. Original claim: and the     *)
(* next session, unless given a non-matching key, enters the menu loop     *)
(* with that store.                                                        *)
(***************************************************************************)
SavedBytesDecryptToStore ==
    (SaveStep /\ writes' = writes + 1) =>
        \A p \in KeyPaths :
            Matches(p, publicKeyPath') =>
                /\ ~decryptStore(p, storeFile'.data).exit
                /\ decryptStore(p, storeFile'.data).v = store

C10_CapacityBoundary ==
    [][(SaveStep /\ UsableKeyAt(publicKeyPath')
          /\ Len(JSONstringify(store)) > OaepCapacity) =>
         /\ pc' = "menu"
         /\ storeFile' = storeFile
         /\ writes' = writes
         /\ store' = store
         /\ HasLine(out', "Encryption failed.")
         /\ ~HasLine(out', "Invalid public key file.")
         /\ ~HasLine(out', "Store encrypted and saved.")
      ]_vars

\* A save refused for a store over the capacity of a usable key.
C10_Witness ==
    /\ pc = "menu"
    /\ publicKeyPath = Pub1Path
    /\ HasLine(out, "Encryption failed.")
    /\ Len(JSONstringify(store)) > OaepCapacity
    /\ writes = 0

(***************************************************************************)
(* isValidKey on its own: the key is drawn from every string of at most    *)
(* MaxKeyLen characters over KeyAlphabet and from the keys the key rule is *)
(* illustrated with, and the function is applied to it.                    *)
(***************************************************************************)
MaxKeyLen ==
    3

\* A lower-case letter, an upper-case letter, a digit, the three other
\* characters the rule allows, and one it does not.
KeyAlphabet ==
    {"a", "Z", "7", " ", "_", "-", "!"}

BoundedKeys ==
    UNION {[1..n -> KeyAlphabet] : n \in 0..MaxKeyLen}

MyKey1 ==
    <<"m", "y", "_", "k", "e", "y", "-", "1">>

LeadingKey ==
    <<" ", "l", "e", "a", "d", "i", "n", "g">>

TrailingKey ==
    <<"t", "r", "a", "i", "l", "i", "n", "g", " ">>

BadKey ==
    <<"b", "a", "d", "!", "k", "e", "y">>

KeyCandidates ==
    BoundedKeys \cup {MyKey1, LeadingKey, TrailingKey, BadKey, << >>}

InitKey ==
    /\ key \in KeyCandidates
    /\ pc = "validate"
    /\ STORE_FILE = <<"store", ".encjson">>
    /\ storeFile = NoFile
    /\ store = EmptyStore
    /\ exitCode = 0
    /\ rlClosed = FALSE
    /\ out = << >>
    /\ delKey = << >>
    /\ privateKeyPath = NoPath
    /\ publicKeyPath = NoPath
    /\ attempts = 0
    /\ writes = 0
    /\ session = 1
    /\ steps = 0
    /\ prev = [saved |-> FALSE, publicKeyPath |-> NoPath, store |-> EmptyStore]

\* isValidKey(key) is evaluated and its result written out.
ValidateKey ==
    /\ pc = "validate"
    /\ pc' = "validated"
    /\ out' = <<Line(IF isValidKey(key) THEN "true" ELSE "false")>>
    /\ UNCHANGED <<STORE_FILE, storeFile, store, exitCode, rlClosed, key, delKey,
                   privateKeyPath, publicKeyPath, attempts, writes, session,
                   steps, prev>>

NextKey ==
    ValidateKey

SpecKey ==
    InitKey /\ [][NextKey]_vars

\* The key rule as the data model words it.
KeyRule(k) ==
    /\ Len(k) > 0
    /\ \A i \in 1..Len(k) :
          \/ k[i] \in Lower \cup Upper
          \/ k[i] \in Digits
          \/ k[i] = " "
          \/ k[i] = "_"
          \/ k[i] = "-"
    /\ k[1] # " "
    /\ k[Len(k)] # " "

(***************************************************************************)
(* C11. isValidKey(key) is true exactly when key is non-empty, consists of *)
(* letters, digits, space, underscore and hyphen only, and neither starts  *)
(* nor ends with a space; "my_key-1" is valid and " leading", "trailing ", *)
(* "" and "bad!key" are not.                                               *)
(***************************************************************************)
C11_KeyValidation ==
    pc = "validated" =>
        /\ (out = <<Line("true")>>) <=> KeyRule(key)
        /\ (out = <<Line("false")>>) <=> ~KeyRule(key)
        /\ key = MyKey1 => out = <<Line("true")>>
        /\ key \in {LeadingKey, TrailingKey, BadKey, << >>} => out = <<Line("false")>>

\* A key with an inner space and a trailing space was judged invalid.
C11_Witness ==
    /\ pc = "validated"
    /\ key = <<"a", " ", " ">>
    /\ out = <<Line("false")>>

PlaintextNotice ==
    "Store is not encrypted. Proceeding with the existing data."

InvalidKeyLine ==
    "Invalid key. Please enter a valid key."

(***************************************************************************)
(* C13. Validation and not-found are non-fatal and local: an invalid key   *)
(* given to add is reported as invalid, inserts nothing and leaves the     *)
(* session at the key prompt; deleting a key that is not in the store      *)
(* never ends the session; and no add inserts a key for which isValidKey   *)
(* is false.                                                               *)
(***************************************************************************)
C13_ValidationNonFatal ==
    [][/\ (pc = "askKey" /\ key' # << >> /\ ~isValidKey(key')) =>
            /\ HasLine(out', InvalidKeyLine)
            /\ store' = store
            /\ pc' = "askKey"
            /\ exitCode' = exitCode
       /\ (DeleteStep /\ ~HasOwn(store, delKey')) =>
            /\ pc' # "exited"
            /\ InMenuLoop'
       /\ AddStep =>
            \A k \in OwnKeys(store') \ OwnKeys(store) : isValidKey(k)
      ]_vars

\* Option 3 was chosen and the store printed.
ShowStep ==
    pc = "menu" /\ pc' = "menu" /\ HasLine(out', "Current store:")

(***************************************************************************)
(* C14. Once the menu loop runs, the store changes only through an add     *)
(* with a valid key and a delete of a key that is in the store; show, a    *)
(* failed save, an unrecognised choice, a cancelled add or delete and an   *)
(* add with an invalid key leave it unchanged, and what option 3 shows is  *)
(* the current store.                                                      *)
(***************************************************************************)
C14_StoreChangesOnlyByAddDelete ==
    [][/\ (InMenuLoop /\ store' # store) =>
            \/ AddStep /\ isValidKey(key)
            \/ DeleteStep /\ HasOwn(store, delKey')
       /\ ShowStep =>
            /\ store' = store
            /\ JSONparse(out'[1].args[1]).ok
            /\ JSONparse(out'[1].args[1]).v = store
       /\ (SaveStep /\ pc' = "menu") => store' = store
       /\ (pc = "menu" /\ pc' = "menu") => store' = store
       /\ pc = "askKey" => store' = store
       /\ (pc = "askDelKey" /\ delKey' = << >>) => store' = store
      ]_vars

\* A store built by an add was shown.
C14_Witness ==
    /\ ~storeFile.exists
    /\ pc = "menu"
    /\ HasLine(out, "Current store:")
    /\ OwnKeys(store) = {<<"a">>}

\* The bytes encryptStore can produce from the current store with the key
\* file at the given path.
CiphertextsOfStore(path) ==
    IF ~FileExistsAt(path) THEN {}
    ELSE {publicEncrypt(KeyFileAt(path), JSONstringify(store), seed).v :
            seed \in {sd \in Seeds :
                        ~publicEncrypt(KeyFileAt(path), JSONstringify(store), sd).threw}}

====
